---------------------------- MODULE Spec2Model ----------------------------
(***************************************************************************)
(* Workflow Manager configuration migration scripts.                       *)
(*                                                                         *)
(*   WMX_ExportWorkflows_PythonAPI.py : exportConfiguration runs           *)
(*       exportDiagrams, exportJobTemplates, exportEmailNotifications,     *)
(*       exportLookupStatus against the source workflow item and writes    *)
(*       JSON files into json_dir.                                         *)
(*   WMX_ImportWorkflows_PythonAPI.py : __main__ runs importDiagrams,      *)
(*       importJobTemplates, importEmailNotifications, importLookupStatus  *)
(*       on the files of folder against the destination workflow item.     *)
(*                                                                         *)
(* Python strings that the scripts build or take apart (file names, ids)   *)
(* are sequences of one-character strings, so that `in`, split and slices  *)
(* are computed as Python computes them.  Values the scripts only copy     *)
(* (names, descriptions, step lists) are atoms.                            *)
(***************************************************************************)
EXTENDS Integers, Sequences, FiniteSets, TLC

VARIABLES
    pc,              \* the function the script is about to call, "done" or "crashed"
    run,             \* number of the current invocation of the script
    fault,           \* the export step whose first remote call raises, or "none"
    source_wm,       \* the source workflow item, as the SDK accessors show it
    dest_wm,         \* the destination workflow item, as the SDK accessors show it
    dirExists,       \* os.path.exists(json_dir)
    dir,             \* the directory: file name -> file text
    diagram_id_map,  \* the dictionary local to importDiagrams, as its last call left it
    calls,           \* creation/update calls issued to the destination in this invocation
    out,             \* warnings and exception texts written in this invocation
    opened,          \* <<file name, function>>: files a function opened and parsed
    handled          \* <<file name, function>>: files whose loop body ran to its end

vars == <<pc, run, fault, source_wm, dest_wm, dirExists, dir, diagram_id_map,
          calls, out, opened, handled>>

----------------------------------------------------------------------------
(* Bounds of the model.                                                    *)

MaxSrcDiagrams == 2
MaxFiles == 2
MaxRuns == 2

----------------------------------------------------------------------------
(* Python str operations on sequences of characters.                       *)

Range(s) == {s[i] : i \in DOMAIN s}

\* s[i : i+len(p)] == p
StartsAt(s, p, i) ==
    /\ i >= 1
    /\ i + Len(p) - 1 <= Len(s)
    /\ \A k \in 1..Len(p) : s[i + k - 1] = p[k]

\* s.find(p, i - 1) + 1 (0 when p does not occur from position i on)
RECURSIVE FindFrom(_, _, _)
FindFrom(s, p, i) ==
    IF i + Len(p) - 1 > Len(s) THEN 0
    ELSE IF StartsAt(s, p, i) THEN i
    ELSE FindFrom(s, p, i + 1)
Find(s, p) == FindFrom(s, p, 1)

\* p in s
Contains(p, s) == Find(s, p) # 0

\* s.split(sep)
RECURSIVE Split(_, _)
Split(s, sep) ==
    LET i == Find(s, sep)
    IN  IF i = 0
        THEN <<s>>
        ELSE <<SubSeq(s, 1, i - 1)>> \o Split(SubSeq(s, i + Len(sep), Len(s)), sep)

\* s[:-n]
DropLast(s, n) == IF Len(s) > n THEN SubSeq(s, 1, Len(s) - n) ELSE <<>>

\* filename[:-5] strips ".json"
JsonSuffixLen == 5

PathSep == <<"/">>
folder == <<"w">>

\* os.path.join(folder, f)
PathJoin(d, f) == d \o PathSep \o f

\* os.path.basename(p)
RECURSIVE Basename(_)
Basename(p) ==
    LET i == Find(p, PathSep)
    IN  IF i = 0 THEN p ELSE Basename(SubSeq(p, i + 1, Len(p)))

----------------------------------------------------------------------------
(* File names.                                                             *)

DiagramPrefix == <<"D", "i", "a", "g", "r", "a", "m", "_", "_", "_">>
TemplatePrefix == <<"T", "e", "m", "p", "l", "a", "t", "e", "_", "_", "_">>
JsonSuffix == <<".", "j", "s", "o", "n">>
TemplateMark == <<"T", "e", "m", "p", "l", "a", "t", "e", "_">>
IdSeparator == <<"_", "_", "_">>
SettingsStem ==
    <<"s", "e", "t", "t", "i", "n", "g", "s", "_", "_", "_", "E", "m", "a", "i", "l",
      "N", "o", "t", "i", "f", "i", "c", "a", "t", "i", "o", "n", "s">>
EmailTemplateStem ==
    <<"E", "m", "a", "i", "l", "T", "e", "m", "p", "l", "a", "t", "e", "_", "_", "_",
      "A", "L", "L">>
LookupStem ==
    <<"l", "o", "o", "k", "u", "p", "s", "_", "_", "_", "s", "t", "a", "t", "u", "s">>

\* f"Diagram___{d.diagram_id}.json"
DiagramFileName(id) == DiagramPrefix \o id \o JsonSuffix
\* f"Template___{t_id}.json"
TemplateFileName(id) == TemplatePrefix \o id \o JsonSuffix
SettingsFileName == SettingsStem \o JsonSuffix
EmailTemplateFileName == EmailTemplateStem \o JsonSuffix
LookupFileName == LookupStem \o JsonSuffix

----------------------------------------------------------------------------
(* json.dump / json.load.  A file text is either the serialisation of a    *)
(* dict or list, or text that json.load rejects.                           *)

JsonDump(kind, val) == [wellformed |-> TRUE, kind |-> kind, val |-> val]
Garbage == [wellformed |-> FALSE, kind |-> "none", val |-> <<>>]
JsonLoad(text) ==
    IF text.wellformed
    THEN [ok |-> TRUE, kind |-> text.kind, val |-> text.val]
    ELSE [ok |-> FALSE, kind |-> "none", val |-> <<>>]

\* open(path, 'w') followed by json.dump: the file is created or truncated
WriteFile(d, name, text) ==
    [f \in (DOMAIN d) \cup {name} |-> IF f = name THEN text ELSE d[f]]

NoFiles == [f \in {} |-> Garbage]

\* dict.update({k: v})
DictUpdate(m, k, v) == [x \in (DOMAIN m) \cup {k} |-> IF x = k THEN v ELSE m[x]]
EmptyDict == [x \in {} |-> <<>>]

\* os.listdir(folder): the names in any order
RECURSIVE Orders(_)
Orders(S) ==
    IF S = {} THEN {<<>>}
    ELSE UNION {{<<x>> \o t : t \in Orders(S \ {x})} : x \in S}
Listings(d) == Orders(DOMAIN d)

----------------------------------------------------------------------------
(* Messages: arcpy.AddMessage(str(ex)) of a caught exception, AddWarning.   *)

ExceptionText(fn, exc, arg) ==
    [fn |-> fn, level |-> "message", kind |-> exc, arg |-> arg]
Warning(fn, kind, arg) ==
    [fn |-> fn, level |-> "warning", kind |-> kind, arg |-> arg]

----------------------------------------------------------------------------
(* The objects of a workflow item.  A field the scripts only copy holds a  *)
(* value tagged with the field and the object it belongs to.               *)

Opaque(field, of) == [field |-> field, of |-> of]

Diagram(id, name, active) ==
    [diagram_id |-> id,
     diagram_name |-> name,
     active |-> active,
     steps |-> Opaque("steps", name),
     display_grid |-> Opaque("display_grid", name),
     description |-> Opaque("description", name),
     diagram_version |-> Opaque("diagram_version", name),
     annotations |-> Opaque("annotations", name),
     data_sources |-> Opaque("data_sources", name),
     initial_step_id |-> Opaque("initial_step_id", name),
     initial_step_name |-> Opaque("initial_step_name", name)]

JobTemplate(id, name, diagramId, diagramName, tables) ==
    [job_template_id |-> id,
     job_template_name |-> name,
     default_priority_name |-> Opaque("priority", name),
     default_assigned_to |-> Opaque("assigned_to", name),
     diagram_id |-> diagramId,
     diagram_name |-> diagramName,
     default_assigned_type |-> Opaque("assigned_type", name),
     description |-> Opaque("description", name),
     state |-> Opaque("state", name),
     extended_property_table_definitions |-> tables]

TableDefinition(name) == [tableName |-> name, fields |-> Opaque("fields", name)]
EmailTemplateObject(id, name) ==
    [template_id |-> id, template_name |-> name,
     template_details |-> Opaque("templateDetails", name)]
Lookup(name) == [lookupName |-> name, value |-> Opaque("value", name)]

IdA == <<"a", "1">>
IdB == <<"b", "2">>
IdC == <<"c", "_", "_", "_", "3">>
DiagramIds == {IdA, IdB, IdC}
DiagramNames == {"Review", "Survey"}

TemplateIdA == <<"t", "1">>
TemplateIdB == <<"t", "2">>

\* source_wm.diagram(id)
DiagramById(wm, id) == CHOOSE x \in Range(wm.diagrams) : x.diagram_id = id
\* source_wm.job_template(t_id)
JobTemplateById(wm, id) ==
    CHOOSE x \in Range(wm.job_templates) : x.job_template_id = id
\* source_wm_sgc.email_template(t_id)
EmailTemplateById(wm, id) ==
    CHOOSE x \in Range(wm.email_templates) : x.template_id = id

EmptyItem ==
    [diagrams |-> <<>>, job_templates |-> <<>>, table_definitions |-> <<>>,
     settings |-> <<>>, email_templates |-> <<>>, lookups |-> <<>>]

----------------------------------------------------------------------------
(* WMX_ExportWorkflows_PythonAPI.py                                        *)

ExportSteps ==
    <<"exportDiagrams", "exportJobTemplates", "exportEmailNotifications",
      "exportLookupStatus">>

\* the dict s of exportDiagrams
DiagramDict(d) ==
    [diagram_name |-> d.diagram_name,
     steps |-> d.steps,
     display_grid |-> d.display_grid,
     description |-> d.description,
     active |-> TRUE,
     diagram_version |-> d.diagram_version,
     annotations |-> d.annotations,
     data_sources |-> d.data_sources,
     diagram_id |-> d.diagram_id,
     initial_step_id |-> d.initial_step_id,
     initial_step_name |-> d.initial_step_name]

\* the dict t of exportJobTemplates
JobTemplateDict(j) ==
    [name |-> j.job_template_name,
     priority |-> j.default_priority_name,
     id |-> j.job_template_id,
     assigned_to |-> j.default_assigned_to,
     diagram_id |-> j.diagram_id,
     diagram_name |-> j.diagram_name,
     assigned_type |-> j.default_assigned_type,
     description |-> j.description,
     state |-> j.state,
     extended_property_table_definitions |-> j.extended_property_table_definitions]

\* the dict t of exportEmailNotifications
EmailTemplateDict(j) ==
    [templateName |-> j.template_name, templateDetails |-> j.template_details]

\* for id in diagram_ids: write Diagram___<id>.json
RECURSIVE ExportDiagramsLoop(_, _, _)
ExportDiagramsLoop(wm, ids, d) ==
    IF ids = <<>> THEN d
    ELSE LET x == DiagramById(wm, Head(ids))
         IN  ExportDiagramsLoop(wm, Tail(ids),
                WriteFile(d, DiagramFileName(x.diagram_id), JsonDump("dict", DiagramDict(x))))

\* for t_id in template_ids: write Template___<t_id>.json
RECURSIVE ExportJobTemplatesLoop(_, _, _)
ExportJobTemplatesLoop(wm, ids, d) ==
    IF ids = <<>> THEN d
    ELSE LET j == JobTemplateById(wm, Head(ids))
         IN  ExportJobTemplatesLoop(wm, Tail(ids),
                WriteFile(d, TemplateFileName(Head(ids)), JsonDump("dict", JobTemplateDict(j))))

\* for t_id in template_ids: email_templates.append(t)
RECURSIVE ExportEmailTemplatesLoop(_, _)
ExportEmailTemplatesLoop(wm, ids) ==
    IF ids = <<>> THEN <<>>
    ELSE <<EmailTemplateDict(EmailTemplateById(wm, Head(ids)))>>
            \o ExportEmailTemplatesLoop(wm, Tail(ids))

exportDiagrams ==
    /\ pc = "exportDiagrams"
    /\ dirExists' = TRUE
    /\ IF fault = "exportDiagrams"
       THEN /\ out' = Append(out, ExceptionText("exportDiagrams", "RemoteError", "diagrams"))
            /\ dir' = dir
       ELSE /\ dir' = ExportDiagramsLoop(source_wm,
                         [i \in DOMAIN source_wm.diagrams |-> source_wm.diagrams[i].diagram_id],
                         dir)
            /\ out' = out
    /\ pc' = "exportJobTemplates"
    /\ UNCHANGED <<run, fault, source_wm, dest_wm, diagram_id_map, calls, opened, handled>>

exportJobTemplates ==
    /\ pc = "exportJobTemplates"
    /\ dirExists' = TRUE
    /\ IF fault = "exportJobTemplates"
       THEN /\ out' = Append(out, ExceptionText("exportJobTemplates", "RemoteError", "job_templates"))
            /\ dir' = dir
       ELSE /\ dir' = ExportJobTemplatesLoop(source_wm,
                         [i \in DOMAIN source_wm.job_templates |->
                             source_wm.job_templates[i].job_template_id],
                         dir)
            /\ out' = out
    /\ pc' = "exportEmailNotifications"
    /\ UNCHANGED <<run, fault, source_wm, dest_wm, diagram_id_map, calls, opened, handled>>

\* no try/except: an exception leaves exportConfiguration
exportEmailNotifications ==
    /\ pc = "exportEmailNotifications"
    /\ dirExists' = TRUE
    /\ IF fault = "exportEmailNotifications"
       THEN /\ pc' = "crashed"
            /\ dir' = dir
       ELSE /\ dir' = WriteFile(
                        WriteFile(dir, SettingsFileName,
                                  JsonDump("dict", [settings |-> source_wm.settings])),
                        EmailTemplateFileName,
                        JsonDump("list", ExportEmailTemplatesLoop(source_wm,
                            [i \in DOMAIN source_wm.email_templates |->
                                source_wm.email_templates[i].template_id])))
            /\ pc' = "exportLookupStatus"
    /\ UNCHANGED <<run, fault, source_wm, dest_wm, diagram_id_map, calls, out, opened, handled>>

\* no try/except: an exception leaves exportConfiguration
exportLookupStatus ==
    /\ pc = "exportLookupStatus"
    /\ IF fault = "exportLookupStatus"
       THEN /\ pc' = "crashed"
            /\ UNCHANGED <<dir, dirExists>>
       ELSE /\ dirExists' = TRUE
            /\ dir' = WriteFile(dir, LookupFileName,
                                JsonDump("dict", [lookups |-> source_wm.lookups]))
            /\ pc' = "exportDone"
    /\ UNCHANGED <<run, fault, source_wm, dest_wm, diagram_id_map, calls, out, opened, handled>>

----------------------------------------------------------------------------
(* Source workflow items of the export runs.                               *)

\* sequences of at most n diagrams with pairwise distinct ids
DiagramLists(n) ==
    UNION {
        {s \in [1..k -> {Diagram(i, nm, a) : i \in DiagramIds, nm \in DiagramNames, a \in BOOLEAN}] :
            \A p, q \in 1..k : p # q => s[p].diagram_id # s[q].diagram_id}
        : k \in 0..n}

SourceRest ==
    {[job_templates |-> <<>>, settings |-> <<>>, email_templates |-> <<>>, lookups |-> <<>>],
     [job_templates |-> <<JobTemplate(TemplateIdA, "Parcel edit", IdA, "Review", <<>>)>>,
      settings |-> <<Opaque("smtp", "source")>>,
      email_templates |-> <<EmailTemplateObject("e1", "Job assigned")>>,
      lookups |-> <<Lookup("Open"), Lookup("Closed")>>],
     [job_templates |-> <<JobTemplate(TemplateIdA, "Parcel edit", IdA, "Review", <<>>),
                          JobTemplate(TemplateIdB, "Road edit", IdB, "Survey",
                                      <<TableDefinition("roads"), TableDefinition("owners")>>)>>,
      settings |-> <<>>,
      email_templates |-> <<EmailTemplateObject("e1", "Job assigned"),
                            EmailTemplateObject("e2", "Job closed")>>,
      lookups |-> <<Lookup("Open")>>]}

SourceItems ==
    {[diagrams |-> ds, job_templates |-> r.job_templates, table_definitions |-> <<>>,
      settings |-> r.settings, email_templates |-> r.email_templates, lookups |-> r.lookups]
        : ds \in DiagramLists(MaxSrcDiagrams), r \in SourceRest}

InitExport ==
    /\ pc = "exportDiagrams"
    /\ run = 1
    /\ fault \in {"none"} \cup Range(ExportSteps)
    /\ source_wm \in SourceItems
    /\ dest_wm = EmptyItem
    /\ dirExists \in BOOLEAN
    /\ dir = NoFiles
    /\ diagram_id_map = EmptyDict
    /\ calls = <<>>
    /\ out = <<>>
    /\ opened = {}
    /\ handled = {}

NextExport ==
    \/ exportDiagrams
    \/ exportJobTemplates
    \/ exportEmailNotifications
    \/ exportLookupStatus

SpecExport == InitExport /\ [][NextExport]_vars

----------------------------------------------------------------------------
(* WMX_ImportWorkflows_PythonAPI.py                                        *)

\* The names bound in the module namespace of the import script: its imports,
\* its module-level assignments and its def/class statements.  A name a
\* function reads without assigning it is looked up here.
ModuleGlobals ==
    {"arcpy", "os", "json", "GIS", "WorkflowManager", "_camelCase_to_underscore",
     "Config", "portal", "dest_wfm_itemID", "folder", "dest_wf_item", "dest_wm",
     "importDiagrams", "importJobTemplates", "WorkflowManagerSgc",
     "_underscore_to_camelcase", "EmailTemplate", "ejecutarServicioWfm",
     "importEmailNotifications", "importLookupStatus"}
\* every name a function reads is bound, as if it were declared global
IsBoundAnyName(name) == TRUE

IsBound(name) == name \in ModuleGlobals

\* The running state of one import function: the destination, the locals and
\* the traces, and whether an exception has left the try block.
Raise(st, fn, exc, arg) ==
    [st EXCEPT !.raised = TRUE, !.out = Append(@, ExceptionText(fn, exc, arg))]
Open(st, fn, df) == [st EXCEPT !.opened = @ \cup {<<Basename(df), fn>>}]
Handled(st, fn, df) == [st EXCEPT !.handled = @ \cup {<<Basename(df), fn>>}]

\* id the destination gives the n-th diagram it creates
Digits == <<"0", "1", "2", "3", "4", "5", "6", "7", "8", "9">>
NewDiagramId(wm) == <<"n", Digits[(Len(wm.diagrams) % 10) + 1]>>

\* the membership test left out: every name counts as missing
NotInUnchecked(x, names) == TRUE

\* x not in names
NotIn(x, names) == x \notin Range(names)

\* "Template_" in f
IsTemplateFile(f) == Contains(TemplateMark, f)

\* dest_wm.create_diagram(name=..., steps=..., ...)
CreateDiagramArgs(d) ==
    [name |-> d.diagram_name, steps |-> d.steps, display_grid |-> d.display_grid,
     description |-> d.description, active |-> d.active,
     annotations |-> d.annotations, data_sources |-> d.data_sources]
CreateDiagramKeys ==
    {"diagram_name", "diagram_id", "steps", "display_grid", "description", "active",
     "annotations", "data_sources"}
CreateDiagram(st, args) ==
    [st EXCEPT
        !.dest.diagrams = Append(@,
            [diagram_id |-> NewDiagramId(st.dest), diagram_name |-> args.name,
             active |-> args.active, steps |-> args.steps,
             display_grid |-> args.display_grid, description |-> args.description,
             diagram_version |-> Opaque("diagram_version", args.name),
             annotations |-> args.annotations, data_sources |-> args.data_sources,
             initial_step_id |-> Opaque("initial_step_id", args.name),
             initial_step_name |-> Opaque("initial_step_name", args.name)]),
        !.calls = Append(@, [fn |-> "create_diagram", args |-> args,
                             result |-> NewDiagramId(st.dest)])]

\* filename = os.path.basename(df).split('___')[1]; orig_id = filename[:-5]
OrigIdParts(df) == Split(Basename(df), IdSeparator)
OrigIdOf(df) == DropLast(OrigIdParts(df)[2], JsonSuffixLen)

\* [x.diagram_id for x in dest_wm.diagrams if x.diagram_name == d_name]
IdsOfName(wm, d_name) ==
    LET Named(x) == x.diagram_name = d_name
        hits == SelectSeq(wm.diagrams, Named)
    IN  [i \in DOMAIN hits |-> hits[i].diagram_id]

\* the body of `for df in diagram_files`
ImportDiagramFile(st, df, existing_diagrams) ==
    LET fn == "importDiagrams"
        st1 == Open(st, fn, df)
        d == JsonLoad(dir[Basename(df)])
    IN  IF ~d.ok THEN Raise(st1, fn, "JSONDecodeError", Basename(df))
        ELSE IF d.kind # "dict" THEN Raise(st1, fn, "TypeError", "diagram_name")
        ELSE IF "diagram_name" \notin DOMAIN d.val THEN Raise(st1, fn, "KeyError", "diagram_name")
        ELSE IF NotIn(d.val.diagram_name, existing_diagrams)
        THEN IF ~(CreateDiagramKeys \subseteq DOMAIN d.val)
             THEN Raise(st1, fn, "KeyError", "diagram")
             ELSE LET st2 == CreateDiagram(st1, CreateDiagramArgs(d.val))
                      new_id == st2.calls[Len(st2.calls)].result
                  IN  Handled([st2 EXCEPT !.map = DictUpdate(@, d.val.diagram_id, new_id)],
                              fn, df)
        ELSE IF Len(OrigIdParts(df)) < 2 THEN Raise(st1, fn, "IndexError", "split")
        ELSE IF IdsOfName(st1.dest, d.val.diagram_name) = <<>>
             THEN Raise(st1, fn, "IndexError", "diagram_id")
        ELSE Handled([st1 EXCEPT !.map = DictUpdate(@, OrigIdOf(df),
                                     IdsOfName(st1.dest, d.val.diagram_name)[1])],
                     fn, df)

RECURSIVE ImportDiagramsLoop(_, _, _)
ImportDiagramsLoop(st, files, existing_diagrams) ==
    IF files = <<>> \/ st.raised THEN st
    ELSE ImportDiagramsLoop(ImportDiagramFile(st, Head(files), existing_diagrams),
                            Tail(files), existing_diagrams)

\* the state a function starts from
Enter ==
    [dest |-> dest_wm, map |-> EmptyDict, calls |-> calls, out |-> out,
     opened |-> opened, handled |-> handled, raised |-> FALSE]

\* lines 46-54: every listed name without "Template_" is a diagram file
DiagramFiles(wmx_files) ==
    LET Other(f) == ~IsTemplateFile(f)
        names == SelectSeq(wmx_files, Other)
    IN  [i \in DOMAIN names |-> PathJoin(folder, names[i])]
TemplateFiles(wmx_files) ==
    LET names == SelectSeq(wmx_files, IsTemplateFile)
    IN  [i \in DOMAIN names |-> PathJoin(folder, names[i])]

DiagramNamesOf(wm) == [i \in DOMAIN wm.diagrams |-> wm.diagrams[i].diagram_name]

importDiagrams ==
    /\ pc = "importDiagrams"
    /\ \E wmx_files \in Listings(dir) :
       \E st \in {ImportDiagramsLoop(Enter, DiagramFiles(wmx_files), DiagramNamesOf(dest_wm))} :
           /\ dest_wm' = st.dest
           /\ diagram_id_map' = st.map
           /\ calls' = st.calls
           /\ out' = st.out
           /\ opened' = st.opened
           /\ handled' = st.handled
    /\ pc' = "importJobTemplates"
    /\ UNCHANGED <<run, fault, source_wm, dirExists, dir>>

\* dest_wm.create_job_template(name=..., ..., state=...) without the
\* extended_property_table_definitions argument
JobTemplateArgs(j, new_diagram_id) ==
    [name |-> j.name, priority |-> j.priority, id |-> j.id,
     assigned_to |-> j.assigned_to, diagram_id |-> new_diagram_id,
     diagram_name |-> j.diagram_name, assigned_type |-> j.assigned_type,
     description |-> j.description, state |-> j.state]
\* the same call with extended_property_table_definitions=j[...]
JobTemplateArgsWithTables(j, new_diagram_id) ==
    [name |-> j.name, priority |-> j.priority, id |-> j.id,
     assigned_to |-> j.assigned_to, diagram_id |-> new_diagram_id,
     diagram_name |-> j.diagram_name, assigned_type |-> j.assigned_type,
     description |-> j.description, state |-> j.state,
     extended_property_table_definitions |-> j.extended_property_table_definitions]
JobTemplateKeys ==
    {"name", "priority", "id", "assigned_to", "diagram_id", "diagram_name",
     "assigned_type", "description", "state", "extended_property_table_definitions"}

CreateJobTemplate(st, args) ==
    [st EXCEPT
        !.dest.job_templates = Append(@,
            [job_template_id |-> args.id, job_template_name |-> args.name,
             default_priority_name |-> args.priority,
             default_assigned_to |-> args.assigned_to,
             diagram_id |-> args.diagram_id, diagram_name |-> args.diagram_name,
             default_assigned_type |-> args.assigned_type,
             description |-> args.description, state |-> args.state,
             extended_property_table_definitions |->
                IF "extended_property_table_definitions" \in DOMAIN args
                THEN args.extended_property_table_definitions ELSE <<>>]),
        !.dest.table_definitions =
            IF "extended_property_table_definitions" \in DOMAIN args
            THEN @ \o args.extended_property_table_definitions ELSE @,
        !.calls = Append(@, [fn |-> "create_job_template", args |-> args,
                             result |-> args.id])]

TableNames(defs) == [i \in DOMAIN defs |-> defs[i].tableName]

\* the body of `for t in tnames`: table_defs is read from the module namespace
RECURSIVE ImportTablesLoop(_, _, _, _)
ImportTablesLoop(st, tnames, j, new_diagram_id) ==
    IF tnames = <<>> \/ st.raised THEN st
    ELSE IF ~IsBound("table_defs")
    THEN Raise(st, "importJobTemplates", "NameError", "table_defs")
    ELSE ImportTablesLoop(
            IF NotIn(Head(tnames), TableNames(dest_wm.table_definitions))
            THEN CreateJobTemplate(st, JobTemplateArgsWithTables(j, new_diagram_id))
            ELSE CreateJobTemplate(st, JobTemplateArgs(j, new_diagram_id)),
            Tail(tnames), j, new_diagram_id)

\* diagram_id_map.get(source_diagram_id)
PyNone == <<"None">>
DictGet(m, k) == IF k \in DOMAIN m THEN m[k] ELSE PyNone

\* the body of `for jt in template_files`: diagram_id_map is read from the
\* module namespace
ImportJobTemplateFile(st, jt, existing_templates) ==
    LET fn == "importJobTemplates"
        st1 == Open(st, fn, jt)
        j == JsonLoad(dir[Basename(jt)])
    IN  IF ~j.ok THEN Raise(st1, fn, "JSONDecodeError", Basename(jt))
        ELSE IF j.kind # "dict" THEN Raise(st1, fn, "TypeError", "diagram_id")
        ELSE IF "diagram_id" \notin DOMAIN j.val THEN Raise(st1, fn, "KeyError", "diagram_id")
        ELSE IF ~IsBound("diagram_id_map")
        THEN Raise(st1, fn, "NameError", "diagram_id_map")
        ELSE IF "name" \notin DOMAIN j.val THEN Raise(st1, fn, "KeyError", "name")
        ELSE LET new_diagram_id == DictGet(diagram_id_map, j.val.diagram_id)
             IN  IF ~NotIn(j.val.name, existing_templates) THEN Handled(st1, fn, jt)
                 ELSE IF ~(JobTemplateKeys \subseteq DOMAIN j.val)
                 THEN Raise(st1, fn, "KeyError", "template")
                 ELSE IF j.val.extended_property_table_definitions # <<>>
                      THEN LET st2 == ImportTablesLoop(st1,
                                        TableNames(j.val.extended_property_table_definitions),
                                        j.val, new_diagram_id)
                           IN  IF st2.raised THEN st2 ELSE Handled(st2, fn, jt)
                      ELSE Handled(CreateJobTemplate(st1,
                                      JobTemplateArgsWithTables(j.val, new_diagram_id)),
                                   fn, jt)

RECURSIVE ImportJobTemplatesLoop(_, _, _)
ImportJobTemplatesLoop(st, files, existing_templates) ==
    IF files = <<>> \/ st.raised THEN st
    ELSE ImportJobTemplatesLoop(ImportJobTemplateFile(st, Head(files), existing_templates),
                                Tail(files), existing_templates)

JobTemplateNamesOf(wm) ==
    [i \in DOMAIN wm.job_templates |-> wm.job_templates[i].job_template_name]

importJobTemplates ==
    /\ pc = "importJobTemplates"
    /\ \E wmx_files \in Listings(dir) :
       \E st \in {ImportJobTemplatesLoop(Enter, TemplateFiles(wmx_files),
                                        JobTemplateNamesOf(dest_wm))} :
           /\ dest_wm' = st.dest
           /\ calls' = st.calls
           /\ out' = st.out
           /\ opened' = st.opened
           /\ handled' = st.handled
    /\ pc' = "importEmailNotifications"
    /\ UNCHANGED <<run, fault, source_wm, dirExists, dir, diagram_id_map>>

\* ejecutarServicioWfm(urlWfmService, bodyParams): its first statement
\* reads gis from the module namespace
EjecutarServicioWfm(st, fn, t) ==
    IF ~IsBound("gis") THEN Raise(st, fn, "NameError", "gis")
    ELSE IF ~IsBound("addMessage") THEN Raise(st, fn, "NameError", "addMessage")
    ELSE IF ~IsBound("requests") THEN Raise(st, fn, "NameError", "requests")
    ELSE [st EXCEPT
            !.dest.email_templates = Append(@,
                [template_id |-> t.templateName, template_name |-> t.templateName,
                 template_details |-> t.templateDetails]),
            !.calls = Append(@, [fn |-> "post_templates_email", args |-> t,
                                 result |-> t.templateName])]

\* dest_wm.update_settings(d)
UpdateSettings(st, d) ==
    [st EXCEPT !.dest.settings = <<d>>,
               !.calls = Append(@, [fn |-> "update_settings", args |-> d, result |-> TRUE])]

\* lines 299-303
NotificationFiles(wmx_files) ==
    LET Listed(f) == f \in {SettingsFileName, EmailTemplateFileName}
        names == SelectSeq(wmx_files, Listed)
    IN  [i \in DOMAIN names |-> PathJoin(folder, names[i])]

\* the test left out: the destination always counts as having no settings
NoSettingsUnchecked(wm) == TRUE

\* len(dest_wm.settings) == 0
NoSettings(wm) == Len(wm.settings) = 0

\* lines 305-315: only the first settings file is read (break)
ImportSettings(st, files) ==
    LET fn == "importEmailNotifications"
        IsSettings(df) == Contains(SettingsStem, df)
        hits == SelectSeq(files, IsSettings)
    IN  IF ~NoSettings(st.dest) \/ hits = <<>> THEN st
        ELSE LET st1 == Open(st, fn, hits[1])
                 d == JsonLoad(dir[Basename(hits[1])])
             IN  IF ~d.ok THEN Raise(st1, fn, "JSONDecodeError", Basename(hits[1]))
                 ELSE Handled(UpdateSettings(st1, d.val), fn, hits[1])

EmailTemplateNamesOf(wm) ==
    [i \in DOMAIN wm.email_templates |-> wm.email_templates[i].template_name]

\* the body of `for t in d`
RECURSIVE ImportEmailTemplatesLoop(_, _, _)
ImportEmailTemplatesLoop(st, d, existing_templates) ==
    LET fn == "importEmailNotifications"
    IN  IF d = <<>> \/ st.raised THEN st
        ELSE IF "templateName" \notin DOMAIN Head(d)
        THEN Raise(st, fn, "KeyError", "templateName")
        ELSE ImportEmailTemplatesLoop(
                IF NotIn(Head(d).templateName, existing_templates)
                THEN EjecutarServicioWfm(st, fn, Head(d))
                ELSE [st EXCEPT !.out = Append(@,
                        Warning(fn, "email template exists", Head(d).templateName))],
                Tail(d), existing_templates)

\* the body of `for df in template_files` of lines 320-334
ImportEmailTemplateFile(st, df, existing_templates) ==
    LET fn == "importEmailNotifications"
    IN  IF ~Contains(EmailTemplateStem, df) THEN st
        ELSE LET st1 == Open(st, fn, df)
                 d == JsonLoad(dir[Basename(df)])
             IN  IF ~d.ok THEN Raise(st1, fn, "JSONDecodeError", Basename(df))
                 ELSE IF d.kind # "list"
                      \* `for t in d` runs over the keys of a dict: none for {},
                      \* else t['templateName'] subscripts a str
                      THEN IF DOMAIN d.val = {} THEN Handled(st1, fn, df)
                           ELSE Raise(st1, fn, "TypeError", "templateName")
                 ELSE LET st2 == ImportEmailTemplatesLoop(st1, d.val, existing_templates)
                      IN  IF st2.raised THEN st2 ELSE Handled(st2, fn, df)

RECURSIVE ImportEmailFilesLoop(_, _, _)
ImportEmailFilesLoop(st, files, existing_templates) ==
    IF files = <<>> \/ st.raised THEN st
    ELSE ImportEmailFilesLoop(ImportEmailTemplateFile(st, Head(files), existing_templates),
                              Tail(files), existing_templates)

\* the try block of importEmailNotifications
ImportNotifications(st, files) ==
    LET st1 == ImportSettings(st, files)
    IN  IF st1.raised THEN st1
        ELSE ImportEmailFilesLoop(st1, files, EmailTemplateNamesOf(st1.dest))

importEmailNotifications ==
    /\ pc = "importEmailNotifications"
    /\ \E wmx_files \in Listings(dir) :
       \E st \in {ImportNotifications(Enter, NotificationFiles(wmx_files))} :
           /\ dest_wm' = st.dest
           /\ calls' = st.calls
           /\ out' = st.out
           /\ opened' = st.opened
           /\ handled' = st.handled
    /\ pc' = "importLookupStatus"
    /\ UNCHANGED <<run, fault, source_wm, dirExists, dir, diagram_id_map>>

\* dest_wm.create_lookup("status", lookups): the "status" table is replaced
CreateLookup(st, lookups) ==
    [st EXCEPT !.dest.lookups = lookups,
               !.calls = Append(@, [fn |-> "create_lookup", args |-> lookups, result |-> TRUE])]

LookupNamesOf(wm) == [i \in DOMAIN wm.lookups |-> wm.lookups[i].lookupName]

\* the test off by one: a single existing entry goes unnoticed
HasEntriesOffByOne(existing_templates) == Len(existing_templates) > 1

\* len(existing_templates) > 0
HasEntries(existing_templates) == Len(existing_templates) > 0

\* the body of `for df in template_files` of lines 349-356
ImportLookupFile(st, df, existing_templates) ==
    LET fn == "importLookupStatus"
        st1 == Open(st, fn, df)
        d == JsonLoad(dir[Basename(df)])
        st2 == IF HasEntries(existing_templates)
               THEN [st1 EXCEPT !.out = Append(@,
                        Warning(fn, "status entries replaced", existing_templates))]
               ELSE st1
    IN  IF ~d.ok THEN Raise(st1, fn, "JSONDecodeError", Basename(df))
        ELSE IF d.kind # "dict" THEN Raise(st2, fn, "TypeError", "lookups")
        ELSE IF "lookups" \notin DOMAIN d.val THEN Raise(st2, fn, "KeyError", "lookups")
        ELSE Handled(CreateLookup(st2, d.val.lookups), fn, df)

RECURSIVE ImportLookupsLoop(_, _, _)
ImportLookupsLoop(st, files, existing_templates) ==
    IF files = <<>> \/ st.raised THEN st
    ELSE ImportLookupsLoop(ImportLookupFile(st, Head(files), existing_templates),
                           Tail(files), existing_templates)

\* lines 341-345
LookupFiles(wmx_files) ==
    LET Listed(f) == Contains(LookupStem, f)
        names == SelectSeq(wmx_files, Listed)
    IN  [i \in DOMAIN names |-> PathJoin(folder, names[i])]

importLookupStatus ==
    /\ pc = "importLookupStatus"
    /\ \E wmx_files \in Listings(dir) :
       \E st \in {ImportLookupsLoop(Enter, LookupFiles(wmx_files), LookupNamesOf(dest_wm))} :
           /\ dest_wm' = st.dest
           /\ calls' = st.calls
           /\ out' = st.out
           /\ opened' = st.opened
           /\ handled' = st.handled
    /\ pc' = "done"
    /\ UNCHANGED <<run, fault, source_wm, dirExists, dir, diagram_id_map>>

\* the script is started again on the same folder and destination
runAgain ==
    /\ pc = "done"
    /\ run < MaxRuns
    /\ run' = run + 1
    /\ pc' = "importDiagrams"
    /\ diagram_id_map' = EmptyDict
    /\ calls' = <<>>
    /\ out' = <<>>
    /\ opened' = {}
    /\ handled' = {}
    /\ UNCHANGED <<fault, source_wm, dest_wm, dirExists, dir>>

----------------------------------------------------------------------------
(* Folders and destination workflow items of the import runs.              *)

ParcelEdit == JobTemplate(TemplateIdA, "Parcel edit", IdA, "Review", <<>>)
RoadEdit ==
    JobTemplate(TemplateIdB, "Road edit", IdB, "Survey",
                <<TableDefinition("roads"), TableDefinition("owners")>>)

\* files an export run can have written, and a truncated diagram file
FilePool ==
    {<<DiagramFileName(IdA), JsonDump("dict", DiagramDict(Diagram(IdA, "Review", TRUE)))>>,
     <<DiagramFileName(IdB), JsonDump("dict", DiagramDict(Diagram(IdB, "Survey", FALSE)))>>,
     <<DiagramFileName(IdB), Garbage>>,
     <<DiagramFileName(IdC), JsonDump("dict", DiagramDict(Diagram(IdC, "Review", TRUE)))>>,
     <<TemplateFileName(TemplateIdA), JsonDump("dict", JobTemplateDict(ParcelEdit))>>,
     <<TemplateFileName(TemplateIdB), JsonDump("dict", JobTemplateDict(RoadEdit))>>,
     <<SettingsFileName, JsonDump("dict", [settings |-> <<Opaque("smtp", "source")>>])>>,
     <<EmailTemplateFileName,
       JsonDump("list", <<EmailTemplateDict(EmailTemplateObject("e1", "Job assigned")),
                          EmailTemplateDict(EmailTemplateObject("e2", "Job closed"))>>)>>,
     <<LookupFileName, JsonDump("dict", [lookups |-> <<Lookup("Open"), Lookup("Closed")>>])>>,
     <<LookupFileName, JsonDump("dict", [lookups |-> <<>>])>>}

Folders ==
    {[f \in {e[1] : e \in S} |-> (CHOOSE e \in S : e[1] = f)[2]] :
        S \in {T \in SUBSET FilePool :
                  /\ Cardinality(T) <= MaxFiles
                  /\ \A a, b \in T : a[1] = b[1] => a = b}}

DestDiagrams ==
    {<<>>,
     <<Diagram(<<"x", "1">>, "Review", TRUE)>>,
     <<Diagram(IdA, "Survey", TRUE), Diagram(<<"x", "2">>, "Review", FALSE)>>}

DestRest ==
    {[job_templates |-> <<>>, table_definitions |-> <<>>, settings |-> <<>>,
      email_templates |-> <<>>, lookups |-> <<>>],
     [job_templates |-> <<ParcelEdit>>, table_definitions |-> <<TableDefinition("roads")>>,
      settings |-> <<Opaque("smtp", "destination")>>,
      email_templates |-> <<EmailTemplateObject("e7", "Job assigned")>>,
      lookups |-> <<Lookup("Open"), Lookup("On hold")>>],
     [job_templates |-> <<>>, table_definitions |-> <<TableDefinition("roads")>>,
      settings |-> <<>>,
      email_templates |-> <<EmailTemplateObject("e7", "Job assigned"),
                            EmailTemplateObject("e8", "Job closed")>>,
      lookups |-> <<Lookup("Open")>>]}

DestItems ==
    {[diagrams |-> ds, job_templates |-> r.job_templates,
      table_definitions |-> r.table_definitions, settings |-> r.settings,
      email_templates |-> r.email_templates, lookups |-> r.lookups]
        : ds \in DestDiagrams, r \in DestRest}

InitImport ==
    /\ pc = "importDiagrams"
    /\ run = 1
    /\ fault = "none"
    /\ source_wm = EmptyItem
    /\ dest_wm \in DestItems
    /\ dirExists = TRUE
    /\ dir \in Folders
    /\ diagram_id_map = EmptyDict
    /\ calls = <<>>
    /\ out = <<>>
    /\ opened = {}
    /\ handled = {}

NextImport ==
    \/ importDiagrams
    \/ importJobTemplates
    \/ importEmailNotifications
    \/ importLookupStatus
    \/ runAgain

SpecImport == InitImport /\ [][NextImport]_vars

----------------------------------------------------------------------------
(* Export followed by import: the export script writes json_dir, then the  *)
(* import script is started with the same directory as folder.             *)

\* lines 25-37 of the import script: a new process connects to the
\* destination and reads its parameters; its message stream starts empty
startImport ==
    /\ pc = "exportDone"
    /\ pc' = "importDiagrams"
    /\ out' = <<>>
    /\ UNCHANGED <<run, fault, source_wm, dest_wm, dirExists, dir, diagram_id_map,
                   calls, opened, handled>>

\* sources whose export writes at most MaxFiles per-object files beside the
\* three fixed-name files; their diagrams are active, the value the exported
\* files carry in any case
MigrateSources ==
    {s \in SourceItems :
        /\ Len(s.diagrams) + Len(s.job_templates) <= MaxFiles
        /\ \A d \in Range(s.diagrams) : d.active}

InitMigrate ==
    /\ pc = "exportDiagrams"
    /\ run = 1
    /\ fault = "none"
    /\ source_wm \in MigrateSources
    /\ dest_wm = EmptyItem
    /\ dirExists \in BOOLEAN
    /\ dir = NoFiles
    /\ diagram_id_map = EmptyDict
    /\ calls = <<>>
    /\ out = <<>>
    /\ opened = {}
    /\ handled = {}

NextMigrate ==
    \/ exportDiagrams
    \/ exportJobTemplates
    \/ exportEmailNotifications
    \/ exportLookupStatus
    \/ startImport
    \/ importDiagrams
    \/ importJobTemplates
    \/ importEmailNotifications
    \/ importLookupStatus

SpecMigrate == InitMigrate /\ [][NextMigrate]_vars

----------------------------------------------------------------------------
(* Vocabulary of the properties.                                           *)

ExportedDiagramFields ==
    {"diagram_name", "steps", "display_grid", "description", "active",
     "diagram_version", "annotations", "data_sources", "diagram_id",
     "initial_step_id", "initial_step_name"}

\* a name of the form Diagram___<...>.json / Template___<...>.json
EndsWith(s, p) == StartsAt(s, p, Len(s) - Len(p) + 1)
IsDiagramFileName(f) == StartsAt(f, DiagramPrefix, 1) /\ EndsWith(f, JsonSuffix)
IsTemplateFileName(f) == StartsAt(f, TemplatePrefix, 1) /\ EndsWith(f, JsonSuffix)

\* the file parses and holds the dict of a diagram / of a job template
HoldsDiagram(f) ==
    /\ f \in DOMAIN dir
    /\ JsonLoad(dir[f]).ok
    /\ JsonLoad(dir[f]).kind = "dict"
    /\ ExportedDiagramFields \subseteq DOMAIN JsonLoad(dir[f]).val
HoldsJobTemplate(f) ==
    /\ f \in DOMAIN dir
    /\ JsonLoad(dir[f]).ok
    /\ JsonLoad(dir[f]).kind = "dict"
    /\ JobTemplateKeys \subseteq DOMAIN JsonLoad(dir[f]).val
Parsed(f) == JsonLoad(dir[f]).val

\* the calls the step being taken issues
NewCalls == {calls'[i] : i \in (Len(calls) + 1)..Len(calls')}

AfterExportDiagrams ==
    pc \in {"exportJobTemplates", "exportEmailNotifications", "exportLookupStatus",
            "exportDone", "crashed"}

----------------------------------------------------------------------------
(* C1.  exportDiagrams on a source holding N diagrams, writing into an     *)
(* empty or absent directory, leaves exactly N diagram files, one named    *)
(* Diagram___<id>.json per source diagram id, and the object in each file  *)
(* has, for every exported field, the value the field has on the source    *)
(* diagram.                                                                *)
C1_ExportRoundTrip ==
    (AfterExportDiagrams /\ fault # "exportDiagrams") =>
        /\ {f \in DOMAIN dir : IsDiagramFileName(f)}
              = {DiagramFileName(d.diagram_id) : d \in Range(source_wm.diagrams)}
        /\ Cardinality({f \in DOMAIN dir : IsDiagramFileName(f)}) = Len(source_wm.diagrams)
        /\ \A d \in Range(source_wm.diagrams) :
              /\ HoldsDiagram(DiagramFileName(d.diagram_id))
              /\ \A k \in ExportedDiagramFields :
                    Parsed(DiagramFileName(d.diagram_id))[k] = d[k]

----------------------------------------------------------------------------
(* C2.  importDiagrams, for a diagram file Diagram___<id>.json it handles  *)
(* whose diagram_id is <id> and whose diagram_name already exists at the   *)
(* destination, issues no create_diagram call for it and records in the id *)
(* map an entry whose key is that original id and whose value is the id of *)
(* the existing destination diagram of that name.                          *)
C2_SkipRecordsOriginalId ==
    [][pc = "importDiagrams" =>
        \A id \in DiagramIds :
            ( /\ HoldsDiagram(DiagramFileName(id))
              /\ Parsed(DiagramFileName(id)).diagram_id = id
              /\ Parsed(DiagramFileName(id)).diagram_name \in Range(DiagramNamesOf(dest_wm))
              /\ <<DiagramFileName(id), "importDiagrams">> \in handled' )
            =>
            ( /\ \A c \in NewCalls :
                    c.fn = "create_diagram" =>
                        c.args.name # Parsed(DiagramFileName(id)).diagram_name
              /\ id \in DOMAIN diagram_id_map'
              /\ diagram_id_map'[id]
                    = IdsOfName(dest_wm, Parsed(DiagramFileName(id)).diagram_name)[1] )
      ]_vars

(* C3.  During an import run no create_diagram call and no                 *)
(* create_job_template call is issued with a name that an object of the    *)
(* same kind already had at the destination when the step started.         *)
C3_NoCreateForExistingName ==
    [][\A c \in NewCalls :
          /\ c.fn = "create_diagram" => c.args.name \notin Range(DiagramNamesOf(dest_wm))
          /\ c.fn = "create_job_template" =>
                c.args.name \notin Range(JobTemplateNamesOf(dest_wm))
      ]_vars

\* importDiagrams has created one diagram and skipped a file whose name existed
C3_Witness ==
    /\ pc = "importJobTemplates"
    /\ \E c \in Range(calls) : c.fn = "create_diagram"
    /\ \E h \in handled :
          /\ h[2] = "importDiagrams"
          /\ \A c \in Range(calls) :
                c.fn = "create_diagram" => c.args.name # Parsed(h[1]).diagram_name

(* C4.  importJobTemplates, run after importDiagrams in the same           *)
(* invocation, reads the dictionary importDiagrams built: the lookup of    *)
(* diagram_id_map succeeds for every template file it parses, and every    *)
(* create_job_template call for a template whose source diagram_id was     *)
(* recorded passes the recorded destination id as diagram_id.              *)
C4_TemplatesReadDiagramIdMap ==
    (pc = "importEmailNotifications") =>
        /\ \A m \in Range(out) :
              ~(m.fn = "importJobTemplates" /\ m.kind = "NameError" /\ m.arg = "diagram_id_map")
        /\ \A c \in Range(calls) :
              c.fn = "create_job_template" =>
                \A f \in DOMAIN dir :
                    ( /\ HoldsJobTemplate(f)
                      /\ Parsed(f).id = c.args.id
                      /\ Parsed(f).diagram_id \in DOMAIN diagram_id_map )
                    => c.args.diagram_id = diagram_id_map[Parsed(f).diagram_id]

(* C5.  In importDiagrams a file of the folder that fails to parse as JSON *)
(* does not prevent the other files from being processed: in a folder of   *)
(* diagram files, every file that parses is handled, whatever the order of *)
(* the directory listing.                                                  *)
C5_BadFileDoesNotStopSiblings ==
    ( /\ pc = "importJobTemplates"
      /\ \A f \in DOMAIN dir : IsDiagramFileName(f)
      /\ \E g \in DOMAIN dir : ~JsonLoad(dir[g]).ok )
    => \A f \in DOMAIN dir :
          HoldsDiagram(f) => <<f, "importDiagrams">> \in handled

(* C6.  Every top-level export and import function catches any exception   *)
(* raised in its body, prints it and returns: a failure in one step never  *)
(* leaves the function and never keeps the following steps from running.   *)
C6_StepsCatchTheirExceptions ==
    /\ pc # "crashed"
    /\ \A i \in DOMAIN ExportSteps :
          (fault = ExportSteps[i] /\ pc \in Range(SubSeq(ExportSteps, i + 1, Len(ExportSteps)))
                                                \cup {"exportDone"})
          => \E m \in Range(out) : m.fn = fault /\ m.level = "message"

(* C7.  The import handles a file as a diagram only if it is a diagram     *)
(* file, as a job template only if it is a job-template file, and the      *)
(* settings, email-template and lookup files are parsed only by the        *)
(* email-notification and lookup steps.                                    *)
C7_FilesClassifiedByType ==
    \A h \in opened :
        /\ h[2] = "importDiagrams" => IsDiagramFileName(h[1])
        /\ h[2] = "importJobTemplates" => IsTemplateFileName(h[1])
        /\ h[1] \in {SettingsFileName, EmailTemplateFileName, LookupFileName}
              => h[2] \in {"importEmailNotifications", "importLookupStatus"}

(* C8.  importJobTemplates, for a job-template file it parses whose name   *)
(* is missing at the destination and whose                                 *)
(* extended_property_table_definitions is empty, issues a                  *)
(* create_job_template call that omits that argument.                      *)
C8_EmptyTablesOmitsArgument ==
    [][pc = "importJobTemplates" =>
        \A f \in DOMAIN dir :
            ( /\ HoldsJobTemplate(f)
              /\ <<f, "importJobTemplates">> \in opened'
              /\ Parsed(f).name \notin Range(JobTemplateNamesOf(dest_wm))
              /\ Parsed(f).extended_property_table_definitions = <<>> )
            => \E c \in NewCalls :
                  /\ c.fn = "create_job_template"
                  /\ c.args.name = Parsed(f).name
                  /\ "extended_property_table_definitions" \notin DOMAIN c.args
      ]_vars

(* C9.  When importJobTemplates creates a job template that has table      *)
(* definitions, no create_job_template call passes a table definition      *)
(* whose tableName already exists at the destination, and every table with *)
(* a novel name is passed.                                                 *)
C9_ExistingTablesSkippedIndividually ==
    [][pc = "importJobTemplates" =>
        /\ \A c \in NewCalls :
              (c.fn = "create_job_template"
                  /\ "extended_property_table_definitions" \in DOMAIN c.args)
              => \A t \in Range(c.args.extended_property_table_definitions) :
                    t.tableName \notin Range(TableNames(dest_wm.table_definitions))
        /\ \A f \in DOMAIN dir :
              ( /\ HoldsJobTemplate(f)
                /\ <<f, "importJobTemplates">> \in opened'
                /\ Parsed(f).name \notin Range(JobTemplateNamesOf(dest_wm)) )
              => \A t \in Range(Parsed(f).extended_property_table_definitions) :
                    t.tableName \notin Range(TableNames(dest_wm.table_definitions))
                    => \E c \in NewCalls :
                          /\ c.fn = "create_job_template"
                          /\ "extended_property_table_definitions" \in DOMAIN c.args
                          /\ t \in Range(c.args.extended_property_table_definitions)
      ]_vars

\* the pre-existing-entries warning of importLookupStatus has been written
LookupWarningIn(o) ==
    \E m \in Range(o) : m.fn = "importLookupStatus" /\ m.level = "warning"
FileLookups == Parsed(LookupFileName).lookups

(* C10 as stated.  importLookupStatus replaces the destination's status    *)
(* lookups with those of the input file, warning when entries exist; the   *)
(* second run with the same file leaves the lookups as the first run left  *)
(* them and emits the warning.                                             *)
C10_SecondRunAlwaysWarns ==
    [][(pc = "importLookupStatus" /\ LookupFileName \in DOMAIN dir) =>
        /\ dest_wm'.lookups = FileLookups
        /\ dest_wm.lookups # <<>> => LookupWarningIn(out')
        /\ run >= 2 => (dest_wm'.lookups = dest_wm.lookups /\ LookupWarningIn(out'))
      ]_vars

(* C10 as amended.  importLookupStatus replaces the destination's status   *)
(* lookups with those of the input file, warning when entries exist; the   *)
(* second run with the same file leaves the lookups as the first run left  *)
(* them, and emits the warning when the file's lookup list is not empty.   *)
C10_LookupImportIdempotent ==
    [][(pc = "importLookupStatus" /\ LookupFileName \in DOMAIN dir) =>
        /\ dest_wm'.lookups = FileLookups
        /\ dest_wm.lookups # <<>> => LookupWarningIn(out')
        /\ run >= 2 => /\ dest_wm'.lookups = dest_wm.lookups
                       /\ FileLookups # <<>> => LookupWarningIn(out')
      ]_vars

\* the second run has replaced lookups that the first run had put there
C10_Witness ==
    /\ run = 2
    /\ pc = "done"
    /\ LookupFileName \in DOMAIN dir
    /\ FileLookups # <<>>
    /\ dest_wm.lookups = FileLookups
    /\ LookupWarningIn(out)

----------------------------------------------------------------------------
(* C11.  importEmailNotifications calls update_settings only when the      *)
(* destination has no settings: if the destination's settings are not      *)
(* empty when the step starts, the step leaves them unchanged, whatever    *)
(* the settings file holds.                                                *)
C11_SettingsUpdatedOnlyWhenEmpty ==
    [][pc = "importEmailNotifications" =>
        /\ (\E c \in NewCalls : c.fn = "update_settings") => dest_wm.settings = <<>>
        /\ dest_wm.settings # <<>> => dest_wm'.settings = dest_wm.settings
      ]_vars

\* the step has run on a folder whose settings file differs from the
\* settings the destination had, and has issued no update_settings call
C11_Witness ==
    /\ pc = "importLookupStatus"
    /\ run = 1
    /\ SettingsFileName \in DOMAIN dir
    /\ JsonLoad(dir[SettingsFileName]).ok
    /\ dest_wm.settings # <<>>
    /\ dest_wm.settings # <<Parsed(SettingsFileName)>>
    /\ \A c \in Range(calls) : c.fn # "update_settings"

----------------------------------------------------------------------------
\* the list EmailTemplate___ALL.json holds
HoldsEmailTemplates ==
    /\ EmailTemplateFileName \in DOMAIN dir
    /\ JsonLoad(dir[EmailTemplateFileName]).ok
    /\ JsonLoad(dir[EmailTemplateFileName]).kind = "list"

(* C12.  importEmailNotifications creates the missing email templates:     *)
(* when the step has returned, every templateName listed in                *)
(* EmailTemplate___ALL.json that the destination did not have has been     *)
(* submitted in a creation request to /templates/email, and no creation    *)
(* request is issued for a templateName the destination already had.       *)
C12_MissingEmailTemplatesCreated ==
    [][(pc = "importEmailNotifications" /\ HoldsEmailTemplates) =>
        /\ \A t \in Range(Parsed(EmailTemplateFileName)) :
              t.templateName \notin Range(EmailTemplateNamesOf(dest_wm))
              => \E c \in NewCalls :
                    /\ c.fn = "post_templates_email"
                    /\ c.args.templateName = t.templateName
        /\ \A c \in NewCalls :
              c.fn = "post_templates_email"
              => c.args.templateName \notin Range(EmailTemplateNamesOf(dest_wm))
      ]_vars

----------------------------------------------------------------------------
(* C13.  Export followed by import migrates every diagram: when            *)
(* exportConfiguration has written all its files into an empty directory   *)
(* and the import has run on that directory against a destination without  *)
(* diagrams, then, whatever the order of the directory listing, every      *)
(* source diagram exists at the destination by name when importDiagrams    *)
(* has returned, and the id map holds an entry for every source diagram    *)
(* id.                                                                     *)
C13_EveryDiagramMigrated ==
    (pc = "importJobTemplates" /\ fault = "none") =>
        \A d \in Range(source_wm.diagrams) :
            /\ d.diagram_name \in Range(DiagramNamesOf(dest_wm))
            /\ d.diagram_id \in DOMAIN diagram_id_map

----------------------------------------------------------------------------
\* create_job_template calls of this invocation made for the template of file f
CreateCallsFor(f) ==
    {i \in DOMAIN calls :
        /\ calls[i].fn = "create_job_template"
        /\ calls[i].args.id = Parsed(f).id
        /\ calls[i].args.name = Parsed(f).name}

(* C14.  importJobTemplates issues at most one create_job_template call    *)
(* per job-template file in one run, however many extended-property table  *)
(* definitions the template carries and whatever mix of them exists at the *)
(* destination.                                                            *)
C14_AtMostOneCreatePerTemplate ==
    \A f \in DOMAIN dir :
        HoldsJobTemplate(f) => Cardinality(CreateCallsFor(f)) <= 1

\* importJobTemplates has parsed a template that is missing at the
\* destination and carries one table the destination has and one it lacks
C14_Witness ==
    /\ pc = "importEmailNotifications"
    /\ \E f \in DOMAIN dir :
          /\ HoldsJobTemplate(f)
          /\ <<f, "importJobTemplates">> \in opened
          /\ Parsed(f).name \notin Range(JobTemplateNamesOf(dest_wm))
          /\ \E t, u \in Range(Parsed(f).extended_property_table_definitions) :
                /\ t.tableName \in Range(TableNames(dest_wm.table_definitions))
                /\ u.tableName \notin Range(TableNames(dest_wm.table_definitions))
          /\ Cardinality(CreateCallsFor(f)) <= 1

----------------------------------------------------------------------------
\* the names of the list are pairwise distinct
Distinct(names) == \A i, k \in DOMAIN names : i # k => names[i] # names[k]

(* C15.  Import never introduces a duplicate name: when the destination's  *)
(* diagram names are pairwise distinct before importDiagrams runs, they    *)
(* are pairwise distinct after it returns, for any diagram files in the    *)
(* folder, two files with different ids and the same diagram_name          *)
(* included; likewise for job-template names and importJobTemplates, and   *)
(* for email template names and importEmailNotifications.                  *)
C15_NoDuplicateNames ==
    [][/\ (pc = "importDiagrams" /\ Distinct(DiagramNamesOf(dest_wm)))
            => Distinct(DiagramNamesOf(dest_wm'))
       /\ (pc = "importJobTemplates" /\ Distinct(JobTemplateNamesOf(dest_wm)))
            => Distinct(JobTemplateNamesOf(dest_wm'))
       /\ (pc = "importEmailNotifications" /\ Distinct(EmailTemplateNamesOf(dest_wm)))
            => Distinct(EmailTemplateNamesOf(dest_wm'))
      ]_vars

============================================================================
